---- MODULE Spec2Model ----
(***************************************************************************)
(* A model of pyGAM's LogisticGAM (src/pygam.py).                          *)
(*                                                                         *)
(* Four specifications live in this module.                                *)
(*   SpecBasis   the pure functions gen_knots and b_spline_basis, run step *)
(*               by step on one sample value, in exact rational arithmetic *)
(*               (the floating-point values of the code are idealised as   *)
(*               rationals <<numerator, denominator>>).                    *)
(*   Spec        one LogisticGAM instance built with valid arguments:      *)
(*               set_params, fit (the PIRLS loop, one pass per step),      *)
(*               predict_proba, predict and partial_dependence.  The       *)
(*               linear algebra of a pass is an input of the step: whether *)
(*               a fitted probability is exactly 0 or 1, whether the       *)
(*               inversion fails, the relative change and the trace        *)
(*               estimate are drawn from small sets.                       *)
(*   SpecFit     Spec with set_params restricted to n_iter.                *)
(*   SpecConfig  construction and set_params with valid and invalid        *)
(*               arguments, up to the start of a fit.                      *)
(***************************************************************************)
EXTENDS Integers, Sequences, FiniteSets

(***************************************************************************)
(* Bounds of the model.                                                    *)
(***************************************************************************)
\* largest data value of a feature column (values are 0..MaxVal)
MaxVal == 2
\* largest number of data values a feature column holds in SpecBasis
MaxData == 3
\* largest n_knots and largest order SpecBasis runs b_spline_basis with
BasisMaxKnots == 2
BasisMaxOrder == 3
\* largest n_iter drawn (the smallest drawn is 0, an invalid value)
MaxIter == 2
\* number of fit calls on the instance
MaxFits == 2

(***************************************************************************)
(* Python's None and a set value: the empty and the one-element sequence.  *)
(***************************************************************************)
None == <<>>
Some(v) == <<v>>
Get(o) == o[1]

(***************************************************************************)
(* Exact rationals <<n, d>>, d > 0, in lowest terms.                       *)
(***************************************************************************)
Abs(a) == IF a < 0 THEN 0 - a ELSE a

RECURSIVE GCD(_, _)
GCD(a, b) == IF b = 0 THEN a ELSE GCD(b, a % b)

Rat(n, d) ==
    LET g == GCD(Abs(n), Abs(d))
        s == IF d < 0 THEN 0 - 1 ELSE 1
    IN  <<(s * n) \div g, (s * d) \div g>>

RInt(a) == <<a, 1>>
RAdd(p, q) == Rat(p[1] * q[2] + q[1] * p[2], p[2] * q[2])
RSub(p, q) == Rat(p[1] * q[2] - q[1] * p[2], p[2] * q[2])
RMul(p, q) == Rat(p[1] * q[1], p[2] * q[2])
\* p / q for q # 0
RDiv(p, q) == Rat(p[1] * q[2], p[2] * q[1])
RLt(p, q) == p[1] * q[2] < q[1] * p[2]
RLe(p, q) == p[1] * q[2] <= q[1] * p[2]

RECURSIVE RSum(_)
RSum(s) == IF s = <<>> THEN RInt(0) ELSE RAdd(Head(s), RSum(Tail(s)))

RECURSIVE Sum(_)
Sum(s) == IF s = <<>> THEN 0 ELSE Head(s) + Sum(Tail(s))

\* s[i] with Python's 0-based index
At(s, i) == s[i + 1]

(***************************************************************************)
(* Sorting (np.sort, and the sort inside np.percentile).                   *)
(***************************************************************************)
RECURSIVE Insert(_, _)
Insert(v, s) ==
    IF s = <<>> THEN <<v>>
    ELSE IF RLe(v, Head(s)) THEN <<v>> \o s
    ELSE <<Head(s)>> \o Insert(v, Tail(s))

RECURSIVE np_sort(_)
np_sort(s) == IF s = <<>> THEN <<>> ELSE Insert(Head(s), np_sort(Tail(s)))

(***************************************************************************)
(* gen_knots: the n_knots + 2 percentiles 0, 100/(n_knots+1), ..., 100 of  *)
(* the data, by linear interpolation between the sorted data values        *)
(* (np.percentile); without add_boundaries the first and last are cut.     *)
(* data is a non-empty sequence of rationals, n_knots >= 0.                *)
(***************************************************************************)
Percentile(sorted, i, n_knots) ==
    LET N   == Len(sorted)
        pos == Rat(i * (N - 1), n_knots + 1)
        lo  == pos[1] \div pos[2]
        fr  == RSub(pos, RInt(lo))
    IN  IF fr[1] = 0 THEN At(sorted, lo)
        ELSE RAdd(At(sorted, lo),
                  RMul(fr, RSub(At(sorted, lo + 1), At(sorted, lo))))

gen_knots(data, n_knots, add_boundaries) ==
    LET sorted == np_sort(data)
        knots  == [i \in 1..(n_knots + 2) |-> Percentile(sorted, i - 1, n_knots)]
    IN  IF add_boundaries THEN knots
        ELSE SubSeq(knots, 2, Len(knots) - 1)

(***************************************************************************)
(* b_spline_basis, for one sample value x (one row of the matrix).         *)
(***************************************************************************)
\* np.r_[min * ones(order-1), sort(knots), max * ones(order-1)]
AugKnots(boundary_knots, order) ==
    LET s == np_sort(boundary_knots)
    IN  [i \in 1..(order - 1) |-> s[1]] \o s \o [i \in 1..(order - 1) |-> s[Len(s)]]

\* Python's index i into a sequence of length n: the 0-based position, or -1
\* when the index is out of bounds (IndexError)
PyIndex(i, n) ==
    IF 0 <= i /\ i < n THEN i
    ELSE IF i < 0 /\ 0 <= n + i THEN n + i
    ELSE 0 - 1

\* the column line 30 writes for a row with x >= aug_knots[-1]
UpperColumn(order, ncols) == PyIndex(0 - order, ncols)
\* the column line 31 writes for a row with x < aug_knots[0]
LowerColumn(order, ncols) == PyIndex(order, ncols)

\* Lines 29-31.  The result is [err, row]: err when an index is out of
\* bounds.  numpy checks the column index of a masked assignment also when
\* the mask selects no row only from some release on: strict says which.
HaarBases(x, aug, order, strict) ==
    LET ncols == Len(aug) - 1
        haar  == [j \in 1..ncols |->
                    IF RLe(aug[j], x) /\ RLt(x, aug[j + 1]) THEN 1 ELSE 0]
        above == RLe(aug[Len(aug)], x)
        below == RLt(x, aug[1])
        up    == UpperColumn(order, ncols)
        low   == LowerColumn(order, ncols)
        r1    == IF above THEN [haar EXCEPT ![up + 1] = 1] ELSE haar
        r2    == IF below THEN [r1 EXCEPT ![low + 1] = 1] ELSE r1
    IN  IF (above \/ strict) /\ up < 0 THEN [err |-> TRUE, row |-> <<>>]
        ELSE IF (below \/ strict) /\ low < 0 THEN [err |-> TRUE, row |-> <<>>]
        ELSE [err |-> FALSE, row |-> [j \in 1..ncols |-> RInt(r2[j])]]

\* Lines 37-47: one pass of the recursion, from order m - 1 to order m.
\* bases has maxi + 1 entries and the result maxi, maxi = Len(aug) - m.
DeBoorStep(x, aug, bases, m) ==
    LET maxi == Len(aug) - m
        left(i) ==
            IF At(aug, m - 1 + i) = At(aug, i) THEN RInt(0)
            ELSE RMul(RDiv(RSub(x, At(aug, i)),
                           RSub(At(aug, m - 1 + i), At(aug, i))),
                      At(bases, i))
        right(i) ==
            IF At(aug, m + i) = At(aug, i + 1) THEN RInt(0)
            ELSE RMul(RDiv(RSub(At(aug, m + i), x),
                           RSub(At(aug, m + i), At(aug, i + 1))),
                      At(bases, i + 1))
    IN  [j \in 1..maxi |-> RAdd(left(j - 1), right(j - 1))]

RECURSIVE DeBoor(_, _, _, _, _)
DeBoor(x, aug, bases, m, order) ==
    IF m > order THEN bases
    ELSE DeBoor(x, aug, DeBoorStep(x, aug, bases, m), m + 1, order)

b_spline_basis(x, boundary_knots, order, strict) ==
    LET aug == AugKnots(boundary_knots, order)
        h   == HaarBases(x, aug, order, strict)
    IN  IF h.err THEN h
        ELSE [err |-> FALSE, row |-> DeBoor(x, aug, h.row, 2, order)]


(***************************************************************************)
(* State.  The first group is the run of gen_knots and b_spline_basis that *)
(* SpecBasis steps through; the second group is one LogisticGAM instance.  *)
(***************************************************************************)
VARIABLES
    bpc,            \* position in the run: "start", "knots", "aug",
                    \* "recursion", "done", "IndexError"
    data,           \* the feature column the knots are taken from
    num_knots,      \* gen_knots' n_knots
    order,          \* b_spline_basis' order
    x,              \* the sample value
    boundary_knots, \* gen_knots' result
    aug_knots,      \* line 27
    haar,           \* the order-1 indicator row after lines 29-31
    bases,          \* the row, through the recursion
    m               \* the recursion's loop variable

bvars == <<bpc, data, num_knots, order, x, boundary_knots, aug_knots,
           haar, bases, m>>

\* the sample values: -1/2, 0, 1/2, ..., MaxVal + 1/2
XVals == {Rat(i, 2) : i \in (0 - 1)..(2 * MaxVal + 1)}
\* the feature columns: 1 to MaxData values in 0..MaxVal
DataVals == UNION {[1..n -> {RInt(v) : v \in 0..MaxVal}] : n \in 1..MaxData}

BasisInit ==
    /\ bpc = "start"
    /\ data \in DataVals
    /\ num_knots \in 0..BasisMaxKnots
    /\ order \in 1..BasisMaxOrder
    /\ x \in XVals
    /\ boundary_knots = <<>>
    /\ aug_knots = <<>>
    /\ haar = <<>>
    /\ bases = <<>>
    /\ m = 0

\* fit, line 278: the knots of a feature, boundaries included
GenKnots ==
    /\ bpc = "start"
    /\ boundary_knots' = gen_knots(data, num_knots, TRUE)
    /\ bpc' = "knots"
    /\ UNCHANGED <<data, num_knots, order, x, aug_knots, haar, bases, m>>

\* line 27
Augment ==
    /\ bpc = "knots"
    /\ aug_knots' = AugKnots(boundary_knots, order)
    /\ bpc' = "aug"
    /\ UNCHANGED <<data, num_knots, order, x, boundary_knots, haar, bases, m>>

\* lines 29-33, when both masked assignments are within the matrix; strictly:
\* the numpy in use checks the column index also under an empty mask
HaarInit(strictly) ==
    /\ bpc = "aug"
    /\ LET h == HaarBases(x, aug_knots, order, strictly)
       IN  /\ ~h.err
           /\ haar' = h.row
           /\ bases' = h.row
    /\ m' = 2
    /\ bpc' = "recursion"
    /\ UNCHANGED <<data, num_knots, order, x, boundary_knots, aug_knots>>

\* lines 30-31, when a masked assignment is out of the matrix
HaarIndexError(strictly) ==
    /\ bpc = "aug"
    /\ HaarBases(x, aug_knots, order, strictly).err
    /\ bpc' = "IndexError"
    /\ UNCHANGED <<data, num_knots, order, x, boundary_knots, aug_knots,
                   haar, bases, m>>

\* lines 36-47, one pass of the loop
Recurse ==
    /\ bpc = "recursion"
    /\ m <= order
    /\ bases' = DeBoorStep(x, aug_knots, bases, m)
    /\ m' = m + 1
    /\ UNCHANGED <<bpc, data, num_knots, order, x, boundary_knots,
                   aug_knots, haar>>

\* lines 49-52
ReturnBases ==
    /\ bpc = "recursion"
    /\ m > order
    /\ bpc' = "done"
    /\ UNCHANGED <<data, num_knots, order, x, boundary_knots, aug_knots,
                   haar, bases, m>>

(***************************************************************************)
(* The LogisticGAM instance.                                               *)
(***************************************************************************)
VARIABLES
    pc,            \* "new" (not constructed), "AssertionError" (construction
                   \* raised), "idle", "loop" (inside the loop of pirls_)
    n_iter, lam, tol, n_knots, diff_order, spline_order,   \* hyperparameters
    b_,            \* None or Some([len, ver]): the coefficient vector's length
                   \* and which array it is (0: the zero vector of line 175)
    knots_,        \* None or Some(sequence of the knot count of each feature)
    n_bases_,      \* the block widths
    edof_, rse_, se_, aic_, aicc_,     \* fit diagnostics, None or Some(value)
    acc, nll, diffs,                   \* the iteration logs; an entry is the
                                       \* number of the pass that appended it
    nsamples,      \* y.shape[0] while fit runs
    run,           \* the loop of the running or last fit: n, the length of
                   \* range(self.n_iter); it, the passes begun; and of the last
                   \* pass: sat, a fitted probability was exactly 0 or 1; conv,
                   \* the relative change was below tol; weights and inverted,
                   \* lines 190 and 194 ran
    status,        \* how the most recent fit ended
    iters,         \* iterations begun over all fits
    updates,       \* iterations over all fits that reached line 198
    fits           \* fit calls so far

hyper == <<n_iter, lam, tol, n_knots, diff_order, spline_order>>
diagnostics == <<edof_, rse_, se_, aic_, aicc_>>
logs == <<acc, nll, diffs>>
ovars == <<pc, hyper, b_, knots_, n_bases_, diagnostics, logs, nsamples, run,
           status, iters, updates, fits>>
vars == <<bvars, ovars>>

NoRun == [n |-> 0, it |-> 0, sat |-> FALSE, conv |-> FALSE, weights |-> FALSE,
          inverted |-> FALSE]

ObjectInit ==
    /\ pc = "new"
    /\ n_iter = 0 /\ lam = 0 /\ tol = 0
    /\ n_knots = 0 /\ diff_order = 0 /\ spline_order = 0
    /\ b_ = None /\ knots_ = None /\ n_bases_ = <<>>
    /\ edof_ = None /\ rse_ = None /\ se_ = None /\ aic_ = None /\ aicc_ = None
    /\ acc = <<>> /\ nll = <<>> /\ diffs = <<>>
    /\ nsamples = 0
    /\ run = NoRun
    /\ status = "none"
    /\ iters = 0 /\ updates = 0 /\ fits = 0

BasisIdle ==
    /\ bpc = "off"
    /\ data = <<>> /\ num_knots = 0 /\ order = 0 /\ x = RInt(0)
    /\ boundary_knots = <<>> /\ aug_knots = <<>> /\ haar = <<>> /\ bases = <<>>
    /\ m = 0

(***************************************************************************)
(* __init__: the three assertions of lines 60-62, then the assignments.    *)
(* A value is drawn with its type: is_int says whether type(v) is int.     *)
(***************************************************************************)
\* line 60
AssertNIter(v, is_int) == v >= 1 /\ is_int
\* line 61
AssertNKnots(v, is_int) == v >= 0 /\ is_int
\* line 62
AssertSplineOrder(v, is_int) == v >= 1 /\ is_int

Construct(a_lam, a_n_iter, t_n_iter, a_tol, a_n_knots, t_n_knots, a_diff_order, a_spline_order, t_spline_order) ==
    /\ pc = "new"
    /\ IF /\ AssertNIter(a_n_iter, t_n_iter)
          /\ AssertNKnots(a_n_knots, t_n_knots)
          /\ AssertSplineOrder(a_spline_order, t_spline_order)
       THEN /\ n_iter' = a_n_iter
            /\ lam' = a_lam
            /\ tol' = a_tol
            /\ n_knots' = a_n_knots
            /\ diff_order' = a_diff_order
            /\ spline_order' = a_spline_order
            /\ pc' = "idle"
       ELSE /\ UNCHANGED hyper
            /\ pc' = "AssertionError"
    /\ UNCHANGED <<b_, knots_, n_bases_, diagnostics, logs, nsamples, run,
                   status, iters, updates, fits, bvars>>

(***************************************************************************)
(* set_params: setattr for a name get_params lists, nothing for another.   *)
(***************************************************************************)
\* get_params' keys: the attributes whose name does not end in "_" and is
\* none of acc, nll, diffs
ParamNames == {"n_iter", "lam", "tol", "n_knots", "diff_order", "spline_order"}

SetParams(name, value) ==
    /\ pc = "idle"
    /\ n_iter' = IF name = "n_iter" THEN value ELSE n_iter
    /\ lam' = IF name = "lam" THEN value ELSE lam
    /\ tol' = IF name = "tol" THEN value ELSE tol
    /\ n_knots' = IF name = "n_knots" THEN value ELSE n_knots
    /\ diff_order' = IF name = "diff_order" THEN value ELSE diff_order
    /\ spline_order' = IF name = "spline_order" THEN value ELSE spline_order
    /\ UNCHANGED <<pc, b_, knots_, n_bases_, diagnostics, logs, nsamples, run,
                   status, iters, updates, fits, bvars>>

(***************************************************************************)
(* bases_: the shape of what b_spline_basis builds for one feature, and    *)
(* the block widths recorded on the way.                                   *)
(***************************************************************************)
\* gen_knots with add_boundaries: the number of knots of a feature
KnotCount(nk) == nk + 2

\* b_spline_basis at the level of shapes, for a feature with K knots:
\* [err, width].  above: some row has x >= the largest knot; below: some row
\* has x < the smallest knot.  np.ones(order - 1) raises for order < 1.
FeatureBasis(K, ord, above, below, strictly) ==
    LET ncols == K + 2 * (ord - 1) - 1
    IN  IF ord < 1 \/ K < 1 THEN [err |-> TRUE, width |-> 0]
        ELSE IF (above \/ strictly) /\ UpperColumn(ord, ncols) < 0
             THEN [err |-> TRUE, width |-> 0]
        ELSE IF (below \/ strictly) /\ LowerColumn(ord, ncols) < 0
             THEN [err |-> TRUE, width |-> 0]
        ELSE [err |-> FALSE, width |-> ncols - (ord - 1)]

\* Lines 127-134 on a matrix of p columns: [err, n_bases].  n_bases is what
\* self.n_bases_ holds when bases_ returns or raises.  belowAt is the first
\* column with a value under its smallest knot (0: none).
RECURSIVE BasesLoop(_, _, _, _, _, _, _, _)
BasesLoop(f, last, knots, ord, above, belowAt, strictly, widths) ==
    IF f > last THEN [err |-> FALSE, n_bases |-> widths]
    ELSE LET fb == FeatureBasis(knots[f], ord, above, belowAt = f, strictly)
         IN  IF fb.err THEN [err |-> TRUE, n_bases |-> widths]
             ELSE BasesLoop(f + 1, last, knots, ord, above, belowAt, strictly,
                            Append(widths, fb.width))

Min(a, b) == IF a < b THEN a ELSE b

bases_(p, knots, ord, above, belowAt, strictly) ==
    BasesLoop(1, Min(p, Len(knots)), knots, ord, above, belowAt, strictly, <<1>>)

(***************************************************************************)
(* fit and pirls_.                                                         *)
(***************************************************************************)
\* Line 162: the block-diagonal penalty has sum(n_bases_) rows and the ridge
\* term len(b_); adding matrices of different shapes raises.
P_Raises(n_bases, b) == Sum(n_bases) # b.len

\* line 202: diff < self.tol, false for a NaN diff
DiffBelowTol(isnan, d, tolv) == ~isnan /\ d < tolv

\* Variants of the pass that differ from lines 186-199 in one place each.
\* The saturation test of line 186 without the return of line 188.
pirls_iteration_no_return(b, newb, sat, singular, isnan, d, tolv) ==
    IF singular
    THEN [exit |-> "Raised", b |-> b, acc |-> TRUE, nll |-> TRUE,
          diffs |-> FALSE, weights |-> TRUE, inverted |-> FALSE]
    ELSE [exit |-> IF DiffBelowTol(isnan, d, tolv) THEN "Converged" ELSE "continue",
          b |-> newb, acc |-> TRUE, nll |-> TRUE,
          diffs |-> TRUE, weights |-> TRUE, inverted |-> TRUE]

\* The saturation test moved behind the coefficient update of line 199.
pirls_iteration_late_test(b, newb, sat, singular, isnan, d, tolv) ==
    IF singular
    THEN [exit |-> "Raised", b |-> b, acc |-> TRUE, nll |-> TRUE,
          diffs |-> FALSE, weights |-> TRUE, inverted |-> FALSE]
    ELSE IF sat
    THEN [exit |-> "Saturated", b |-> newb, acc |-> TRUE, nll |-> TRUE,
          diffs |-> FALSE, weights |-> TRUE, inverted |-> TRUE]
    ELSE [exit |-> IF DiffBelowTol(isnan, d, tolv) THEN "Converged" ELSE "continue",
          b |-> newb, acc |-> TRUE, nll |-> TRUE,
          diffs |-> TRUE, weights |-> TRUE, inverted |-> TRUE]

\* The pass with acc appended behind the saturation test instead of before it.
pirls_iteration_late_acc(b, newb, sat, singular, isnan, d, tolv) ==
    IF sat
    THEN [exit |-> "Saturated", b |-> b, acc |-> FALSE, nll |-> TRUE,
          diffs |-> FALSE, weights |-> FALSE, inverted |-> FALSE]
    ELSE IF singular
    THEN [exit |-> "Raised", b |-> b, acc |-> TRUE, nll |-> TRUE,
          diffs |-> FALSE, weights |-> TRUE, inverted |-> FALSE]
    ELSE [exit |-> IF DiffBelowTol(isnan, d, tolv) THEN "Converged" ELSE "continue",
          b |-> newb, acc |-> TRUE, nll |-> TRUE,
          diffs |-> TRUE, weights |-> TRUE, inverted |-> TRUE]

\* Lines 180-208, one pass of the loop from coefficients b.  Inputs: sat, some
\* fitted probability is exactly 0 or 1; singular, the inversion of line 194
\* raises; (isnan, d), the relative change of line 197 in units of the
\* tolerance; newb, b_new.
\* Result: how the pass leaves the loop, the coefficients after it, which
\* logs it appended to, and whether lines 190 and 194 ran.
pirls_iteration(b, newb, sat, singular, isnan, d, tolv) ==
    IF sat
    THEN [exit |-> "Saturated", b |-> b, acc |-> TRUE, nll |-> TRUE,
          diffs |-> FALSE, weights |-> FALSE, inverted |-> FALSE]
    ELSE IF singular
    THEN [exit |-> "Raised", b |-> b, acc |-> TRUE, nll |-> TRUE,
          diffs |-> FALSE, weights |-> TRUE, inverted |-> FALSE]
    ELSE [exit |-> IF DiffBelowTol(isnan, d, tolv) THEN "Converged" ELSE "continue",
          b |-> newb, acc |-> TRUE, nll |-> TRUE,
          diffs |-> TRUE, weights |-> TRUE, inverted |-> TRUE]

\* Line 275, the correction term as the fraction the code divides out; the
\* division is numpy's: a zero denominator yields inf, a negative one a
\* negative correction, neither raises.
estimate_AICc_(edof, ns) ==
    [num |-> 2 * (edof + 1) * (edof + 2), den |-> ns - edof - 2]

\* Lines 278 and 171-177: knots, bases, zero initialisation, penalty.  X has p
\* columns and ns rows; each column holds its own largest knot and no value
\* under its smallest.
FitBegin(p, ns, strictly) ==
    /\ pc = "idle"
    /\ fits < MaxFits
    /\ fits' = fits + 1
    /\ LET knots == [f \in 1..p |-> KnotCount(n_knots)]
           bo    == bases_(p, knots, spline_order, TRUE, 0, strictly)
           b1    == IF b_ = None
                    THEN Some([len |-> Sum(bo.n_bases), ver |-> 0])
                    ELSE b_
       IN  /\ knots_' = Some(knots)
           /\ n_bases_' = bo.n_bases
           /\ IF bo.err
              THEN /\ b_' = b_
                   /\ pc' = "idle"
                   /\ status' = "Raised"
                   /\ nsamples' = 0
                   /\ run' = NoRun
              ELSE /\ b_' = b1
                   /\ IF P_Raises(bo.n_bases, Get(b1))
                      THEN /\ pc' = "idle"
                           /\ status' = "Raised"
                           /\ nsamples' = 0
                           /\ run' = NoRun
                      ELSE /\ pc' = "loop"
                           /\ status' = "running"
                           /\ nsamples' = ns
                           /\ run' = [NoRun EXCEPT !.n = n_iter]
    /\ UNCHANGED <<hyper, diagnostics, logs, iters, updates, bvars>>

\* line 196: b_new is a new array, of the length of the old one
NewArray(b) == [len |-> b.len, ver |-> IF b.ver = 1 THEN 2 ELSE 1]

\* Lines 179-208: one pass of the loop.  With zero coefficients every fitted
\* probability is 1/2, so the pass cannot saturate.
Iterate(sat, singular, isnan, d, edof) ==
    /\ pc = "loop"
    /\ run.it < run.n
    /\ Get(b_).ver = 0 => ~sat
    /\ LET stamp == run.it + 1
           r == pirls_iteration(Get(b_), NewArray(Get(b_)),
                                sat, singular, isnan, d, tol)
       IN  /\ iters' = iters + 1
           /\ updates' = IF sat \/ singular THEN updates ELSE updates + 1
           /\ acc' = IF r.acc THEN Append(acc, stamp) ELSE acc
           /\ nll' = IF r.nll THEN Append(nll, stamp) ELSE nll
           /\ diffs' = IF r.diffs THEN Append(diffs, stamp) ELSE diffs
           /\ b_' = Some(r.b)
           /\ run' = [n |-> run.n, it |-> run.it + 1, sat |-> sat,
                      conv |-> ~sat /\ ~singular /\ ~isnan /\ d < tol,
                      weights |-> r.weights, inverted |-> r.inverted]
           /\ IF r.exit = "Converged"
              THEN /\ edof_' = Some(edof)
                   /\ rse_' = Some(nsamples - edof)
                   /\ se_' = Some(r.b.len)
                   /\ aic_' = Some(2 * edof)
                   /\ aicc_' = Some(estimate_AICc_(edof, nsamples))
              ELSE UNCHANGED diagnostics
           /\ pc' = IF r.exit = "continue" THEN "loop" ELSE "idle"
           /\ status' = IF r.exit = "continue" THEN "running" ELSE r.exit
           /\ nsamples' = IF r.exit = "continue" THEN nsamples ELSE 0
    /\ UNCHANGED <<hyper, knots_, n_bases_, fits, bvars>>

\* Line 210: range(n_iter) is used up
LoopExit ==
    /\ pc = "loop"
    /\ run.it >= run.n
    /\ pc' = "idle"
    /\ status' = "Exhausted"
    /\ nsamples' = 0
    /\ UNCHANGED <<hyper, b_, knots_, n_bases_, diagnostics, logs, run,
                   iters, updates, fits, bvars>>

(***************************************************************************)
(* predict_proba, predict, partial_dependence on a matrix of p columns,    *)
(* each of which reaches its largest knot; belowAt is the first column     *)
(* with a value under its smallest knot (0: none).                         *)
(***************************************************************************)
\* Lines 105-116: log_odds_ calls bases_, which rewrites n_bases_ (line 128,
\* line 133), then multiplies by b_.  With knots_ unset, zip raises after
\* line 128.  Whether the call raises changes no attribute.
predict_proba(p, belowAt, strictly) ==
    /\ pc = "idle"
    /\ n_bases_' = IF knots_ = None THEN <<1>>
                   ELSE bases_(p, Get(knots_), spline_order, TRUE, belowAt,
                               strictly).n_bases
    /\ UNCHANGED <<pc, hyper, b_, knots_, diagnostics, logs, nsamples, run,
                   status, iters, updates, fits, bvars>>

\* line 283
predict(p, belowAt, strictly) == predict_proba(p, belowAt, strictly)

\* Lines 285-304: reads knots_, n_bases_ and b_ and assigns no attribute,
\* whether it returns or raises.
partial_dependence(p) ==
    /\ pc = "idle"
    /\ UNCHANGED <<pc, hyper, b_, knots_, n_bases_, diagnostics, logs, nsamples,
                   run, status, iters, updates, fits, bvars>>

(***************************************************************************)
(* Spec: one instance with hyperparameters in their documented ranges,     *)
(* every operation of the class.  SpecFit: the same instance with the      *)
(* shape hyperparameters n_knots and spline_order as constructed.          *)
(***************************************************************************)
NIterRange == 1..MaxIter
NKnotsRange == {0, 1}
SplineOrderRange == {1, 2}
\* the row counts of a training matrix, the relative changes (in units of
\* the tolerance) and the trace estimates drawn
SampleCounts == {4}
RelChanges == {0, 1}
EdofVals == {1, 2}
\* the column counts of a matrix X
FeatureCounts == {1, 2}

Next ==
    \/ \E a_n_iter \in NIterRange, a_n_knots \in NKnotsRange,
          a_spline_order \in SplineOrderRange :
            Construct(1, a_n_iter, TRUE, 1, a_n_knots, TRUE, 1, a_spline_order, TRUE)
    \/ \E value \in NIterRange : SetParams("n_iter", value)
    \/ \E value \in NKnotsRange : SetParams("n_knots", value)
    \/ \E value \in SplineOrderRange : SetParams("spline_order", value)
    \/ \E p \in FeatureCounts, ns \in SampleCounts, strictly \in BOOLEAN :
            FitBegin(p, ns, strictly)
    \/ \E sat \in BOOLEAN, singular \in BOOLEAN, isnan \in BOOLEAN,
          d \in RelChanges, edof \in EdofVals :
            Iterate(sat, singular, isnan, d, edof)
    \/ LoopExit
    \/ \E p \in FeatureCounts, belowAt \in {0} \cup FeatureCounts, strictly \in BOOLEAN :
            predict_proba(p, belowAt, strictly)
    \/ \E p \in FeatureCounts, belowAt \in {0} \cup FeatureCounts, strictly \in BOOLEAN :
            predict(p, belowAt, strictly)
    \/ \E p \in FeatureCounts : partial_dependence(p)

Init == ObjectInit /\ BasisIdle
Spec == Init /\ [][Next]_vars

FitNext ==
    \/ \E a_n_iter \in NIterRange, a_n_knots \in NKnotsRange,
          a_spline_order \in SplineOrderRange :
            Construct(1, a_n_iter, TRUE, 1, a_n_knots, TRUE, 1, a_spline_order, TRUE)
    \/ \E p \in FeatureCounts, ns \in SampleCounts, strictly \in BOOLEAN :
            FitBegin(p, ns, strictly)
    \/ \E sat \in BOOLEAN, singular \in BOOLEAN, isnan \in BOOLEAN,
          d \in RelChanges, edof \in EdofVals :
            Iterate(sat, singular, isnan, d, edof)
    \/ LoopExit
    \/ \E value \in NIterRange : SetParams("n_iter", value)
    \/ \E p \in FeatureCounts, belowAt \in {0} \cup FeatureCounts, strictly \in BOOLEAN :
            predict_proba(p, belowAt, strictly)
    \/ \E p \in FeatureCounts, belowAt \in {0} \cup FeatureCounts, strictly \in BOOLEAN :
            predict(p, belowAt, strictly)
    \/ \E p \in FeatureCounts : partial_dependence(p)

SpecFit == Init /\ [][FitNext]_vars

(***************************************************************************)
(* SpecConfig: construction and set_params with arguments in and out of    *)
(* range, up to the entry into the loop of fit.                            *)
(***************************************************************************)
NIterArgs == 0..MaxIter
LamArgs == {0, 1}
TolArgs == {0, 1}
NKnotsArgs == {0 - 1, 0, 1}
DiffOrderArgs == {0, 1}
SplineOrderArgs == {0, 1, 2}

ConfigNext ==
    \/ \E a_lam \in LamArgs, a_n_iter \in NIterArgs, t_n_iter \in BOOLEAN,
          a_tol \in TolArgs, a_n_knots \in NKnotsArgs, t_n_knots \in BOOLEAN,
          a_diff_order \in DiffOrderArgs, a_spline_order \in SplineOrderArgs,
          t_spline_order \in BOOLEAN :
            Construct(a_lam, a_n_iter, t_n_iter, a_tol, a_n_knots, t_n_knots,
                      a_diff_order, a_spline_order, t_spline_order)
    \/ \E value \in NIterArgs : SetParams("n_iter", value)
    \/ \E value \in LamArgs : SetParams("lam", value)
    \/ \E value \in TolArgs : SetParams("tol", value)
    \/ \E value \in NKnotsArgs : SetParams("n_knots", value)
    \/ \E value \in DiffOrderArgs : SetParams("diff_order", value)
    \/ \E value \in SplineOrderArgs : SetParams("spline_order", value)
    \/ SetParams("acc", 0)
    \/ \E p \in FeatureCounts, ns \in SampleCounts, strictly \in BOOLEAN :
            FitBegin(p, ns, strictly)

SpecConfig == Init /\ [][ConfigNext]_vars

\* b_spline_basis runs beside an instance nothing is called on
InitBasis == ObjectInit /\ BasisInit
NextBasis ==
    \/ GenKnots /\ UNCHANGED ovars
    \/ Augment /\ UNCHANGED ovars
    \/ \E strictly \in BOOLEAN : HaarInit(strictly) /\ UNCHANGED ovars
    \/ \E strictly \in BOOLEAN : HaarIndexError(strictly) /\ UNCHANGED ovars
    \/ Recurse /\ UNCHANGED ovars
    \/ ReturnBases /\ UNCHANGED ovars
SpecBasis == InitBasis /\ [][NextBasis]_vars

(***************************************************************************)
(* The shape-level FeatureBasis agrees with b_spline_basis run on values:  *)
(* checked under SpecBasis.                                                *)
(***************************************************************************)
ShapeAgrees ==
    LET K     == Len(boundary_knots)
        above == RLe(aug_knots[Len(aug_knots)], x)
        below == RLt(x, aug_knots[1])
    IN  /\ bpc = "done" =>
              LET fb == FeatureBasis(K, order, above, below, FALSE)
              IN  ~fb.err /\ fb.width = Len(bases)
        /\ bpc = "IndexError" => FeatureBasis(K, order, above, below, TRUE).err

(***************************************************************************)
(* Claims.                                                                 *)
(***************************************************************************)
IsPrefix(s, t) == Len(s) <= Len(t) /\ SubSeq(t, 1, Len(s)) = s

DiagnosticsSet == edof_ # None /\ se_ # None /\ aic_ # None /\ aicc_ # None
DiagnosticsUnset == edof_ = None /\ se_ = None /\ aic_ = None /\ aicc_ = None

\* C1: after any sequence of fit calls the diagnostics edof_, se_, aic_ and
\* aicc_ are set exactly when the most recent fit ended Converged: they are
\* all set after a Converged fit and all None after a Saturated or Exhausted
\* one, also when an earlier fit had converged.
C1_DiagnosticsIffLastFitConverged ==
    /\ status = "Converged" => DiagnosticsSet
    /\ status \in {"Saturated", "Exhausted"} => DiagnosticsUnset

ValidHyper ==
    /\ lam > 0
    /\ n_iter >= 1
    /\ tol > 0
    /\ n_knots >= 0
    /\ diff_order >= 1
    /\ spline_order >= 1

\* C2: an invalid value of any of the six hyperparameters raises at
\* construction, so fit never runs on an instance with lam, n_iter, tol,
\* n_knots, diff_order or spline_order out of range.
C2_InvalidHyperNeverFits == pc = "loop" => ValidHyper

\* C3: a PIRLS run that does not raise ends after at most n_iter passes in
\* exactly one of Converged (the last pass updated the coefficients and its
\* relative change was below tol), Saturated (the last pass found a fitted
\* probability of exactly 0 or 1) and Exhausted (n_iter passes ran, none
\* saturated or converged); no pass runs after Converged or Saturated.
C3_PirlsOutcome ==
    /\ run.it <= run.n
    /\ pc = "loop" => status = "running" /\ ~run.sat /\ ~run.conv
    /\ pc = "idle" /\ fits > 0 =>
          status \in {"Converged", "Saturated", "Exhausted", "Raised"}
    /\ status = "Converged" =>
          pc = "idle" /\ run.conv /\ ~run.sat /\ run.inverted /\ run.it >= 1
    /\ status = "Saturated" =>
          pc = "idle" /\ run.sat /\ ~run.conv /\ run.it >= 1
    /\ status = "Exhausted" =>
          pc = "idle" /\ ~run.sat /\ ~run.conv /\ run.it = run.n

\* a fit of two passes that converged in the second
C3_Witness == status = "Converged" /\ run.it = 2

\* C4: a pass that finds a fitted probability of exactly 0 or 1 ends the fit
\* in that pass, before the weights are formed or the matrix is inverted;
\* b_ keeps the value it had when the pass began, and fit returns without
\* raising.
C4_SaturationHalts ==
    [][(pc = "loop" /\ iters' = iters + 1 /\ run'.sat) =>
          /\ b_' = b_
          /\ ~run'.weights
          /\ ~run'.inverted
          /\ status' = "Saturated"
          /\ pc' = "idle"]_vars

\* a saturated fit whose coefficients an earlier pass had computed
C4_Witness == status = "Saturated" /\ run.sat /\ b_ # None /\ Get(b_).ver # 0

\* C5 as stated: after any sequence of fit calls the three logs acc, nll and
\* diffs have the same length, the number of passes begun over all fits.
C5_LogsSameLength ==
    /\ Len(acc) = iters
    /\ Len(nll) = iters
    /\ Len(diffs) = iters

\* C5 as amended: acc and nll hold one entry for each pass begun over all
\* fits, diffs one for each pass that reached the coefficient update (one
\* that neither saturated nor failed to invert), and no step removes or
\* changes an entry of a log.
C5_LogsAppendOnly ==
    [][/\ Len(acc') = iters'
       /\ Len(nll') = iters'
       /\ Len(diffs') = updates'
       /\ IsPrefix(acc, acc')
       /\ IsPrefix(nll, nll')
       /\ IsPrefix(diffs, diffs')]_vars

\* a second fit that saturated: diffs is the shorter log, and not empty
C5_Witness ==
    /\ fits = 2
    /\ status = "Saturated"
    /\ 0 < Len(diffs)
    /\ Len(diffs) < Len(acc)

\* C6: after a fit has returned, no call of predict_proba, predict or
\* partial_dependence changes n_bases_, whatever matrix it is given.
C6_PredictKeepsNBases ==
    [][(status \in {"Converged", "Saturated", "Exhausted"} /\ fits' = fits) =>
          n_bases_' = n_bases_]_vars

\* C7: every fit call, the first, a warm-started one and one that raises,
\* leaves b_, when it is set, as long as the sum of the block widths of
\* n_bases_.
C7_CoefficientLength ==
    [][fits' = fits + 1 =>
          (b_' # None => Get(b_').len = Sum(n_bases_'))]_vars

\* C8: a value obtained by dividing by a zero or negative n - edof - 2 is
\* never stored in aicc_.
C8_AICcGuarded == aicc_ # None => Get(aicc_).den > 0

DistinctKnots == Cardinality({boundary_knots[i] : i \in 1..Len(boundary_knots)})

\* C9: for knots with at least two distinct values and any order >= 1 the
\* row b_spline_basis returns for a sample sums to exactly 1, wherever the
\* sample lies.
C9_PartitionOfUnity ==
    (bpc = "done" /\ DistinctKnots >= 2) => RSum(bases) = RInt(1)

\* the 0-based indices of the knot intervals of positive width
NonDegenerate == {j \in 0..(Len(aug_knots) - 2) : RLt(At(aug_knots, j), At(aug_knots, j + 1))}
Lowest(S) == CHOOSE j \in S : \A k \in S : j <= k
Highest(S) == CHOOSE j \in S : \A k \in S : k <= j
Active(row) == {j \in 0..(Len(row) - 1) : At(row, j) # RInt(0)}

\* C10: the indicator initialisation activates exactly one column for a
\* sample: the column of the knot interval that holds it, the last interval
\* of positive width for a sample at or above the largest knot, the first
\* interval of positive width for a sample under the smallest knot; and the
\* column index it writes is always inside the matrix.
C10_IndicatorColumn ==
    DistinctKnots >= 2 =>
        /\ bpc # "IndexError"
        /\ bpc \in {"recursion", "done"} =>
              /\ Cardinality(Active(haar)) = 1
              /\ \A j \in Active(haar) :
                    IF RLe(aug_knots[Len(aug_knots)], x)
                    THEN j = Highest(NonDegenerate)
                    ELSE IF RLt(x, aug_knots[1])
                    THEN j = Lowest(NonDegenerate)
                    ELSE RLe(At(aug_knots, j), x) /\ RLt(x, At(aug_knots, j + 1))

====
